---- MODULE Spec2Model ----
(***************************************************************************)
(* Model of the GPU driver error handler of the syslog health monitor      *)
(* (package gpudriver): the compiled pattern reGPUDriverErrorPattern, the  *)
(* handler value GPUDriverErrorHandler and its operations                  *)
(* NewGPUDriverErrorHandler, ProcessLine, parseGPUDriverError and          *)
(* createHealthEventFromError, together with the two package-level         *)
(* counters the handler increments and the slog record it writes.          *)
(*                                                                         *)
(* Text is modelled as a sequence of tokens.  A token is either one        *)
(* character ("0", "x", ":", " ", ...) or one of the multi-character       *)
(* literals of the pattern and of the message format, kept whole.  String  *)
(* concatenation is \o, the empty string is << >>, a nil pointer or nil    *)
(* slice is << >> and a non-nil pointer to v is << v >>.                   *)
(***************************************************************************)
EXTENDS Integers, Sequences, FiniteSets, TLC

(***************************************************************************)
(* Bounds of the model.                                                    *)
(***************************************************************************)
MaxCalls == 3
MaxClock == 1

(***************************************************************************)
(* Characters and character classes (types.go:24, Go regexp syntax: \d is  *)
(* [0-9], \s is [\t\n\f\r ]).                                              *)
(***************************************************************************)
Digit == {"0", "1", "2", "3", "4", "5", "6", "7", "8", "9"}

HexLetter == {"a", "b", "c", "d", "e", "f", "A", "B", "C", "D", "E", "F"}

HexOrColon == Digit \cup HexLetter \cup {":"}

Space == {"\t", "\n", "\f", "\r", " "}

\* the two multi-character literals of the pattern
LitModeset == "nvidia-modeset: ERROR: GPU:"

LitWaiting == " Error while waiting for GPU progress: "

(***************************************************************************)
(* The pattern as data: a sequence of elements, each consuming exactly one *)
(* token of a class ("one") or a greedy non-empty run of a class ("plus"). *)
(***************************************************************************)
One(c) == [k |-> "one", c |-> c]

Plus(c) == [k |-> "plus", c |-> c]

\* mutant: the tuple written as one run of digits and colons, [\d:]+
PatternLooseTuple ==
  [elems |->
     << One({LitModeset}), Plus(Digit), One({":"}), One({LitWaiting}),
        One({"0"}), One({"x"}), Plus(HexOrColon), Plus(Space),
        Plus(Digit \cup {":"}) >>,
   groups |-> << <<2, 2>>, <<5, 7>>, <<9, 9>> >>]

\* nvidia-modeset: ERROR: GPU:(\d+): Error while waiting for GPU progress:
\* (0x[0-9a-fA-F:]+)\s+(\d+:\d+:\d+:\d+)
\* groups: the capture groups as <<first element, last element>>
reGPUDriverErrorPattern ==
  [elems |->
     << One({LitModeset}), Plus(Digit), One({":"}), One({LitWaiting}),
        One({"0"}), One({"x"}), Plus(HexOrColon), Plus(Space),
        Plus(Digit), One({":"}), Plus(Digit), One({":"}), Plus(Digit),
        One({":"}), Plus(Digit) >>,
   groups |-> << <<2, 2>>, <<5, 7>>, <<9, 15>> >>]

(***************************************************************************)
(* The matcher.  MatchFrom(pat, p, s, i) matches elements p.. of pat       *)
(* against s starting at token i and returns the end positions (index of   *)
(* the token after each element) or NoMatch.  A "plus" element prefers the *)
(* longest run and gives tokens back only if the rest fails, which is the  *)
(* leftmost-first preference of Go's regexp for a greedy repetition.       *)
(***************************************************************************)
NoMatch == << 0 >>

RECURSIVE MatchFrom(_, _, _, _)
RECURSIVE TryPlus(_, _, _, _, _)
RECURSIVE RunEnd(_, _, _)

\* index after the longest run of tokens of class c starting at i
RunEnd(s, i, c) ==
  IF i <= Len(s) /\ s[i] \in c THEN RunEnd(s, i + 1, c) ELSE i

TryPlus(pat, p, s, i, j) ==
  IF j <= i THEN NoMatch
  ELSE LET r == MatchFrom(pat, p + 1, s, j)
       IN  IF r # NoMatch THEN << j >> \o r
           ELSE TryPlus(pat, p, s, i, j - 1)

MatchFrom(pat, p, s, i) ==
  IF p > Len(pat) THEN << >>
  ELSE IF pat[p].k = "one"
       THEN IF i <= Len(s) /\ s[i] \in pat[p].c
            THEN LET r == MatchFrom(pat, p + 1, s, i + 1)
                 IN  IF r # NoMatch THEN << i + 1 >> \o r ELSE NoMatch
            ELSE NoMatch
       ELSE TryPlus(pat, p, s, i, RunEnd(s, i, pat[p].c))

\* s[a .. b-1]
Slice(s, a, b) == SubSeq(s, a, b - 1)

\* start position of element e of a match that begins at i with ends m
ElemStart(m, i, e) == IF e = 1 THEN i ELSE m[e - 1]

RECURSIVE FindFrom(_, _, _)
\* leftmost match at or after position i: <<whole, group1, group2, group3>>
\* or the nil slice
FindFrom(re, s, i) ==
  IF i > Len(s) THEN << >>
  ELSE LET m == MatchFrom(re.elems, 1, s, i)
       IN  IF m # NoMatch
           THEN << Slice(s, i, m[Len(re.elems)]) >> \o
                [g \in 1..Len(re.groups) |->
                   Slice(s, ElemStart(m, i, re.groups[g][1]),
                         m[re.groups[g][2]])]
           ELSE FindFrom(re, s, i + 1)

\* reGPUDriverErrorPattern.FindStringSubmatch(s)
FindStringSubmatch(s) == FindFrom(reGPUDriverErrorPattern, s, 1)

(***************************************************************************)
(* parseGPUDriverError (gpudriver_handler.go:55-71)                        *)
(***************************************************************************)
\* mutant: the groups read one index too low (gpuID from the whole match)
parseGPUDriverErrorOffByOne(message) ==
  LET matches == FindStringSubmatch(message)
  IN  IF Len(matches) < 4 THEN << >>
      ELSE << [gpuID |-> matches[1], errorCode |-> matches[2],
               errorDetails |-> matches[3], message |-> message] >>

parseGPUDriverError(message) ==
  LET matches == FindStringSubmatch(message)
  IN  IF Len(matches) < 4 THEN << >>
      ELSE << [gpuID |-> matches[2], errorCode |-> matches[3],
               errorDetails |-> matches[4], message |-> message] >>

(***************************************************************************)
(* Handler configuration and the inputs of the model.                      *)
(***************************************************************************)
NodeNames == {"", "test-node"}

AgentNames == {"", "test-agent"}

ComponentClasses == {"", "GPU"}

CheckNames == {"", "test-check"}

HandlerIds == {1, 2}

Threads == {"t1", "t2"}

\* the thread of the sequential specifications
MainThread == "t1"

\* struct GPUDriverErrorHandler (types.go:28-33)
GPUDriverErrorHandler(nodeName, defaultAgentName, defaultComponentClass, checkName) ==
  [nodeName |-> nodeName, defaultAgentName |-> defaultAgentName,
   defaultComponentClass |-> defaultComponentClass, checkName |-> checkName]

AllHandlers ==
  {GPUDriverErrorHandler(n, a, c, k) :
     n \in NodeNames, a \in AgentNames, c \in ComponentClasses,
     k \in CheckNames}

\* the configurations of the stateful specifications: two handlers of one
\* node, a handler of the node with the empty name
SomeHandlers ==
  {GPUDriverErrorHandler("test-node", "test-agent", "GPU",
                         "test-check"),
   GPUDriverErrorHandler("test-node", "", "GPU", "test-check"),
   GPUDriverErrorHandler("", "", "", "")}

\* the configurations of the concurrent specification and of SpecMetrics
ConcHandlers ==
  {GPUDriverErrorHandler("test-node", "test-agent", "GPU", "test-check"),
   GPUDriverErrorHandler("test-node", "", "", "")}

(***************************************************************************)
(* Lines.                                                                  *)
(***************************************************************************)
SigLine(idx, code, gap, det) ==
  << LitModeset >> \o idx \o << ":", LitWaiting >> \o code \o gap \o det

\* nvidia-modeset: ERROR: GPU:2: Error while waiting for GPU progress:
\* 0x0000c77d:0 2:0:4048:4040   (types.go:77, 137)
LineGPU2 ==
  SigLine(<< "2" >>,
          << "0", "x", "0", "0", "0", "0", "c", "7", "7", "d", ":", "0" >>,
          << " " >>,
          << "2", ":", "0", ":", "4", "0", "4", "8", ":",
             "4", "0", "4", "0" >>)

\* nvidia-modeset: ERROR: GPU:5: Error while waiting for GPU progress:
\* 0x0000abcd:1 5:0:1234:5678   (types.go:167)
LineGPU5 ==
  SigLine(<< "5" >>,
          << "0", "x", "0", "0", "0", "0", "a", "b", "c", "d", ":", "1" >>,
          << " " >>,
          << "5", ":", "0", ":", "1", "2", "3", "4", ":",
             "5", "6", "7", "8" >>)

\* nvidia-modeset: ERROR: GPU:0: Some other error   (types.go:91)
LineOtherError == << LitModeset, "0", ":", " Some other error" >>

\* nvidia-modeset: ERROR: GPU:2: Different error message   (types.go:101)
LineDifferent == << LitModeset, "2", ":", " Different error message" >>

\* Some other log message   (types.go:96, 180)
LineUnrelated == << "Some other log message" >>

Idxs == {<< "2" >>, << "0", "2" >>, << "1", "5" >>}

Codes ==
  {<< "0", "x", "c" >>, << "0", "x", "A", "f", ":", "0" >>,
   << "0", "x", ":" >>, << "0", "x", "c", ":", "0", ":", "2" >>,
   << "0", "x" >>, << "0", "x", "g" >>}

Gaps == {<< " " >>, << " ", "\t" >>, << >>}

Details ==
  {<< "2", ":", "0", ":", "5", ":", "5" >>,
   << "4", "0", ":", "0", ":", "4", "8", ":", "7" >>,
   << "2", ":", "0", ":", "5" >>,
   << "2", ":", "0", ":", "5", ":", "5", ":", "9" >>}

Heads == {<< >>, << "Nov  3 19:19:01 host kernel: " >>, LineOtherError}

Tails == {<< >>, << " (repeated)" >>, << " " >> \o LineGPU5}

Lines ==
  {h \o SigLine(i, c, g, d) \o t :
     h \in Heads, i \in Idxs, c \in Codes, g \in Gaps, d \in Details,
     t \in Tails}
  \cup {h \o l \o t :
          h \in Heads, t \in Tails,
          l \in {LineGPU2, LineGPU5, LineOtherError, LineDifferent,
                 LineUnrelated, << >>, << LitModeset >>,
                 << LitModeset, "2" >>,
                 << LitModeset, "2", ":", LitWaiting >>}}

\* the lines of the stateful specifications
SomeLines == {LineGPU2, LineGPU5, LineOtherError}

\* the lines of the concurrent specification and of SpecMetrics
ConcLines == {LineGPU2, LineOtherError}

(***************************************************************************)
(* State.                                                                  *)
(***************************************************************************)
VARIABLES
  handlers,                      \* handler id -> nil or the handler value
  newCall,                       \* handler id -> the NewGPUDriverErrorHandler call that made it
  gpuDriverErrorCounterMetric,   \* <<node>> -> count
  gpuDriverErrorsReportedMetric, \* <<node, gpu id>> -> count
  slogRecords,                   \* the records written by slog.Info
  now,                           \* time.Now()
  metricsUp,                     \* whether the metrics backend is reachable
  frame,                         \* thread -> its ProcessLine call
  calls,                         \* number of ProcessLine calls made
  returned,                      \* <<node, gpu id>> -> events returned
  probe                          \* an earlier call, kept for comparison

vars ==
  << handlers, newCall, gpuDriverErrorCounterMetric,
     gpuDriverErrorsReportedMetric, slogRecords, now, metricsUp, frame,
     calls, returned, probe >>

(***************************************************************************)
(* Counters: gpuDriverErrorCounterMetric and                               *)
(* gpuDriverErrorsReportedMetric are counter vectors, a map from a tuple   *)
(* of label values to a count; a child is created on first use.            *)
(***************************************************************************)
Value(counter, labels) ==
  IF labels \in DOMAIN counter THEN counter[labels] ELSE 0

\* mutant: a fresh child made on every use
IncFresh(counter, labels) == (labels :> 1) @@ counter

\* counter.WithLabelValues(labels...).Inc()
Inc(counter, labels) ==
  IF labels \in DOMAIN counter
  THEN [counter EXCEPT ![labels] = @ + 1]
  ELSE counter @@ (labels :> 1)

\* label values of gpuDriverErrorCounterMetric (gpudriver_handler.go:45)
CounterLabels(h) == << h.nodeName >>

\* mutant: the per-GPU counter labelled with the error code
ReportedLabelsByCode(h, event) == << h.nodeName, event.errorCode >>

\* label values of gpuDriverErrorsReportedMetric (gpudriver_handler.go:74)
ReportedLabels(h, event) == << h.nodeName, event.gpuID >>

(***************************************************************************)
(* createHealthEventFromError (gpudriver_handler.go:73-101): the value it  *)
(* returns for handler h, parsed event and current time ts.                *)
(***************************************************************************)
\* mutant: the arguments of code and details exchanged
SprintfSwapped(gpuID, errorCode, errorDetails, message) ==
  << "GPU " >> \o gpuID \o
  << ": nvidia-modeset driver error detected. ", "Error code: " >> \o
  errorDetails \o << ", Details: " >> \o errorCode \o
  << ". ", "This indicates the GPU driver is not coming up properly. ",
     "nvidia-driver-daemonset and device-plugin daemonset may be crashing. ",
     "Original message: " >> \o message

Sprintf(gpuID, errorCode, errorDetails, message) ==
  << "GPU " >> \o gpuID \o
  << ": nvidia-modeset driver error detected. ", "Error code: " >> \o
  errorCode \o << ", Details: " >> \o errorDetails \o
  << ". ", "This indicates the GPU driver is not coming up properly. ",
     "nvidia-driver-daemonset and device-plugin daemonset may be crashing. ",
     "Original message: " >> \o message

\* the pb.HealthEvent of lines 83-96
HealthEvent(h, event, ts) ==
  [Version |-> 1,
   Agent |-> h.defaultAgentName,
   CheckName |-> h.checkName,
   ComponentClass |-> h.defaultComponentClass,
   GeneratedTimestamp |-> ts,
   EntitiesImpacted |->
     << [EntityType |-> "GPU", EntityValue |-> event.gpuID] >>,
   Message |-> Sprintf(event.gpuID, event.errorCode, event.errorDetails,
                       event.message),
   IsFatal |-> TRUE,
   IsHealthy |-> FALSE,
   NodeName |-> h.nodeName,
   RecommendedAction |-> "RESTART_BM",
   ErrorCode |-> << "GPU_DRIVER_ERROR" >>]

\* mutant: a second error-code tag carrying the extracted code
createHealthEventFromErrorTwoTags(h, event, ts) ==
  << [Version |-> 1,
      Events |->
        << [HealthEvent(h, event, ts) EXCEPT
              !.ErrorCode = << "GPU_DRIVER_ERROR", "XID" >>] >>] >>

\* mutant: only the first report of a GPU is fatal
createHealthEventFromErrorFirstOnly(h, event, ts) ==
  << [Version |-> 1,
      Events |->
        << [HealthEvent(h, event, ts) EXCEPT
              !.IsFatal =
                 Value(gpuDriverErrorsReportedMetric,
                       << h.nodeName, event.gpuID >>) = 0] >>] >>

\* mutant: no event when the metrics backend cannot be reached
createHealthEventFromErrorNeedsMetrics(h, event, ts) ==
  IF metricsUp
  THEN << [Version |-> 1, Events |-> << HealthEvent(h, event, ts) >>] >>
  ELSE << >>

createHealthEventFromError(h, event, ts) ==
  << [Version |-> 1, Events |-> << HealthEvent(h, event, ts) >>] >>

IdleFrame ==
  [pc |-> "idle", h |-> 0, message |-> << >>, event |-> << >>,
   events |-> << >>, err |-> "nil", down |-> FALSE, overlap |-> FALSE]

InitCommon ==
  /\ gpuDriverErrorCounterMetric = << >>
  /\ gpuDriverErrorsReportedMetric = << >>
  /\ slogRecords = {}
  /\ now = 0
  /\ metricsUp = TRUE
  /\ frame = [t \in Threads |-> IdleFrame]
  /\ calls = 0
  /\ returned = << >>
  /\ probe = << >>

Init ==
  /\ handlers = [id \in HandlerIds |-> << >>]
  /\ newCall = [id \in HandlerIds |-> << >>]
  /\ InitCommon

(***************************************************************************)
(* NewGPUDriverErrorHandler (gpudriver_handler.go:28-36)                   *)
(***************************************************************************)
\* mutant: an empty node name rejected
NewGPUDriverErrorHandlerValidating(id, nodeName, defaultAgentName, defaultComponentClass, checkName) ==
  /\ handlers[id] = << >>
  /\ newCall[id] = << >>
  /\ handlers' = [handlers EXCEPT ![id] =
                    IF nodeName = "" THEN << >>
                    ELSE << GPUDriverErrorHandler(nodeName, defaultAgentName,
                                                  defaultComponentClass,
                                                  checkName) >>]
  /\ newCall' = [newCall EXCEPT ![id] =
                   << [nodeName |-> nodeName,
                       defaultAgentName |-> defaultAgentName,
                       defaultComponentClass |-> defaultComponentClass,
                       checkName |-> checkName,
                       err |-> IF nodeName = "" THEN "node name is empty"
                               ELSE "nil"] >>]
  /\ UNCHANGED << gpuDriverErrorCounterMetric,
                  gpuDriverErrorsReportedMetric, slogRecords, now,
                  metricsUp, frame, calls, returned, probe >>

NewGPUDriverErrorHandler(id, nodeName, defaultAgentName, defaultComponentClass, checkName) ==
  /\ handlers[id] = << >>
  /\ handlers' = [handlers EXCEPT ![id] =
                    << GPUDriverErrorHandler(nodeName, defaultAgentName,
                                             defaultComponentClass,
                                             checkName) >>]
  /\ newCall' = [newCall EXCEPT ![id] =
                   << [nodeName |-> nodeName,
                       defaultAgentName |-> defaultAgentName,
                       defaultComponentClass |-> defaultComponentClass,
                       checkName |-> checkName, err |-> "nil"] >>]
  /\ UNCHANGED << gpuDriverErrorCounterMetric,
                  gpuDriverErrorsReportedMetric, slogRecords, now,
                  metricsUp, frame, calls, returned, probe >>

(***************************************************************************)
(* ProcessLine (gpudriver_handler.go:39-52), the whole call in one step:   *)
(* thread t calls handlers[id].ProcessLine(message).                       *)
(***************************************************************************)
SlogRecord(h, event) ==
  [msg |-> "GPU driver error detected", gpu_id |-> event.gpuID,
   error_code |-> event.errorCode, node |-> h.nodeName]

\* the events a call on handler h returned, added to the tally: one for
\* each impacted entity value of each event of the container
RECURSIVE TallyEvents(_, _, _, _)
TallyEvents(tally, node, evs, i) ==
  IF i > Len(evs) THEN tally
  ELSE TallyEvents(
         IF evs[i].EntitiesImpacted = << >> THEN tally
         ELSE LET key == << node, evs[i].EntitiesImpacted[1].EntityValue >>
              IN  (key :> Value(tally, key) + 1) @@ tally,
         node, evs, i + 1)

CountReturned(h, events) ==
  IF events = << >> THEN returned
  ELSE TallyEvents(returned, h.nodeName, events[1].Events, 1)

\* the caller keeps what the call returned; probe may remember it
Remember(id, message, events, down, overlap) ==
  \/ UNCHANGED probe
  \/ /\ probe = << >>
     /\ probe' = << [h |-> id, message |-> message, events |-> events,
                     down |-> down, overlap |-> overlap] >>

ProcessLine(t, id, message) ==
  /\ calls < MaxCalls
  /\ handlers[id] # << >>
  /\ frame[t].pc \in {"idle", "returned"}
  /\ calls' = calls + 1
  /\ LET h == handlers[id][1]
         event == parseGPUDriverError(message)
     IN  IF event = << >>
         THEN /\ frame' = [frame EXCEPT ![t] =
                           [pc |-> "returned", h |-> id,
                            message |-> message, event |-> << >>,
                            events |-> << >>, err |-> "nil",
                            down |-> ~metricsUp, overlap |-> FALSE]]
              /\ Remember(id, message, << >>, ~metricsUp, FALSE)
              /\ UNCHANGED << gpuDriverErrorCounterMetric,
                              gpuDriverErrorsReportedMetric, slogRecords,
                              returned >>
         ELSE LET events == createHealthEventFromError(h, event[1], now)
              IN  /\ gpuDriverErrorCounterMetric' =
                       Inc(gpuDriverErrorCounterMetric, CounterLabels(h))
                  /\ slogRecords' =
                       slogRecords \cup {SlogRecord(h, event[1])}
                  /\ gpuDriverErrorsReportedMetric' =
                       Inc(gpuDriverErrorsReportedMetric,
                           ReportedLabels(h, event[1]))
                  /\ frame' = [frame EXCEPT ![t] =
                               [pc |-> "returned", h |-> id,
                                message |-> message, event |-> event,
                                events |-> events, err |-> "nil",
                                down |-> ~metricsUp, overlap |-> FALSE]]
                  /\ returned' = CountReturned(h, events)
                  /\ Remember(id, message, events, ~metricsUp, FALSE)
  /\ UNCHANGED << handlers, newCall, now, metricsUp >>

\* time passes
Tick ==
  /\ now < MaxClock
  /\ now' = now + 1
  /\ UNCHANGED << handlers, newCall, gpuDriverErrorCounterMetric,
                  gpuDriverErrorsReportedMetric, slogRecords, metricsUp,
                  frame, calls, returned, probe >>

\* the metrics backend becomes unreachable or reachable again
MetricsFlip ==
  /\ metricsUp' = ~metricsUp
  /\ UNCHANGED << handlers, newCall, gpuDriverErrorCounterMetric,
                  gpuDriverErrorsReportedMetric, slogRecords, now, frame,
                  calls, returned, probe >>

Next ==
  \/ \E id \in HandlerIds, h \in SomeHandlers :
       NewGPUDriverErrorHandler(id, h.nodeName, h.defaultAgentName,
                                h.defaultComponentClass, h.checkName)
  \/ \E id \in HandlerIds, message \in SomeLines :
       ProcessLine(MainThread, id, message)
  \/ Tick

Spec == Init /\ [][Next]_vars

(***************************************************************************)
(* SpecMetrics: calls made while the metrics backend comes and goes.       *)
(***************************************************************************)
NextMetrics ==
  \/ \E id \in HandlerIds, h \in ConcHandlers :
       NewGPUDriverErrorHandler(id, h.nodeName, h.defaultAgentName,
                                h.defaultComponentClass, h.checkName)
  \/ \E id \in HandlerIds, message \in ConcLines :
       ProcessLine(MainThread, id, message)
  \/ MetricsFlip

SpecMetrics == Init /\ [][NextMetrics]_vars

(***************************************************************************)
(* SpecLine: the classification of one line, for every line of Lines and   *)
(* every handler configuration.                                            *)
(***************************************************************************)
InitLine == Init

NextLine ==
  \/ \E h \in AllHandlers :
       NewGPUDriverErrorHandler(1, h.nodeName, h.defaultAgentName,
                                h.defaultComponentClass, h.checkName)
  \/ \E message \in Lines :
       /\ calls = 0
       /\ ProcessLine(MainThread, 1, message)

SpecLine == InitLine /\ [][NextLine]_vars

(***************************************************************************)
(* SpecConc: ProcessLine called by several threads at once, one step per   *)
(* access to something shared: the call with parseGPUDriverError (local),  *)
(* the increment of line 45, slog.Info of line 47, the increment of line   *)
(* 74, and the construction of the event with time.Now() and the return.   *)
(* An increment of a counter child is one atomic addition.                 *)
(***************************************************************************)
MidCall(t) == frame[t].pc \in {"inc1", "log", "inc2", "build"}

Call(t, id, message) ==
  /\ calls < MaxCalls
  /\ handlers[id] # << >>
  /\ frame[t].pc \in {"idle", "returned"}
  /\ calls' = calls + 1
  /\ LET event == parseGPUDriverError(message)
         busy == \E u \in Threads \ {t} : MidCall(u)
     IN  IF event = << >>
         THEN /\ frame' = [frame EXCEPT ![t] =
                           [pc |-> "returned", h |-> id,
                            message |-> message, event |-> << >>,
                            events |-> << >>, err |-> "nil",
                            down |-> FALSE, overlap |-> busy]]
              /\ Remember(id, message, << >>, FALSE, busy)
         ELSE /\ frame' =
                   [u \in Threads |->
                      IF u = t
                      THEN [pc |-> "inc1", h |-> id, message |-> message,
                            event |-> event, events |-> << >>,
                            err |-> "nil", down |-> FALSE,
                            overlap |-> busy]
                      ELSE IF MidCall(u)
                           THEN [frame[u] EXCEPT !.overlap = TRUE]
                           ELSE frame[u]]
              /\ UNCHANGED probe
  /\ UNCHANGED << handlers, newCall, gpuDriverErrorCounterMetric,
                  gpuDriverErrorsReportedMetric, slogRecords, now,
                  metricsUp, returned >>

\* gpuDriverErrorCounterMetric.WithLabelValues(h.nodeName).Inc()
StepCounter(t) ==
  /\ frame[t].pc = "inc1"
  /\ gpuDriverErrorCounterMetric' =
       Inc(gpuDriverErrorCounterMetric,
           CounterLabels(handlers[frame[t].h][1]))
  /\ frame' = [frame EXCEPT ![t].pc = "log",
                            ![t].down = @ \/ ~metricsUp]
  /\ UNCHANGED << handlers, newCall, gpuDriverErrorsReportedMetric,
                  slogRecords, now, metricsUp, calls, returned, probe >>

\* slog.Info("GPU driver error detected", ...)
StepLog(t) ==
  /\ frame[t].pc = "log"
  /\ slogRecords' =
       slogRecords \cup
         {SlogRecord(handlers[frame[t].h][1], frame[t].event[1])}
  /\ frame' = [frame EXCEPT ![t].pc = "inc2"]
  /\ UNCHANGED << handlers, newCall, gpuDriverErrorCounterMetric,
                  gpuDriverErrorsReportedMetric, now, metricsUp, calls,
                  returned, probe >>

\* gpuDriverErrorsReportedMetric.WithLabelValues(h.nodeName, gpuID).Inc()
StepReported(t) ==
  /\ frame[t].pc = "inc2"
  /\ gpuDriverErrorsReportedMetric' =
       Inc(gpuDriverErrorsReportedMetric,
           ReportedLabels(handlers[frame[t].h][1], frame[t].event[1]))
  /\ frame' = [frame EXCEPT ![t].pc = "build",
                            ![t].down = @ \/ ~metricsUp]
  /\ UNCHANGED << handlers, newCall, gpuDriverErrorCounterMetric,
                  slogRecords, now, metricsUp, calls, returned, probe >>

\* the event is built and ProcessLine returns it
StepReturn(t) ==
  /\ frame[t].pc = "build"
  /\ LET h == handlers[frame[t].h][1]
         events == createHealthEventFromError(h, frame[t].event[1], now)
     IN  /\ frame' = [frame EXCEPT ![t].pc = "returned",
                                   ![t].events = events]
         /\ returned' = CountReturned(h, events)
         /\ Remember(frame[t].h, frame[t].message, events, frame[t].down,
                     frame[t].overlap)
  /\ UNCHANGED << handlers, newCall, gpuDriverErrorCounterMetric,
                  gpuDriverErrorsReportedMetric, slogRecords, now,
                  metricsUp, calls >>

NextConc ==
  \/ \E id \in HandlerIds, h \in ConcHandlers :
       NewGPUDriverErrorHandler(id, h.nodeName, h.defaultAgentName,
                                h.defaultComponentClass, h.checkName)
  \/ \E t \in Threads, id \in HandlerIds, message \in ConcLines :
       Call(t, id, message)
  \/ \E t \in Threads : StepCounter(t)
  \/ \E t \in Threads : StepLog(t)
  \/ \E t \in Threads : StepReported(t)
  \/ \E t \in Threads : StepReturn(t)
  \/ Tick

SpecConc == Init /\ [][NextConc]_vars

(***************************************************************************)
(* Reference reading of a line, used to state the properties: the shape    *)
(* of the pattern scanned left to right from a position i, each field      *)
(* being the longest run of its class.                                     *)
(***************************************************************************)
At(s, i) == IF 1 <= i /\ i <= Len(s) THEN s[i] ELSE ""

HexDigit == Digit \cup HexLetter

AllIn(s, c) == \A i \in 1..Len(s) : s[i] \in c

Contains(s, x) ==
  \E i \in 1..(Len(s) - Len(x) + 1) : SubSeq(s, i, i + Len(x) - 1) = x

Occurrences(s, tok) == Cardinality({i \in 1..Len(s) : s[i] = tok})

\* the field boundaries of a line read from position i
Fields(s, i) ==
  LET a == RunEnd(s, i + 1, Digit)
      b == RunEnd(s, a + 4, HexOrColon)
      c == RunEnd(s, b, Space)
      d1 == RunEnd(s, c, Digit)
      d2 == RunEnd(s, d1 + 1, Digit)
      d3 == RunEnd(s, d2 + 1, Digit)
      d4 == RunEnd(s, d3 + 1, Digit)
  IN  [a |-> a, b |-> b, c |-> c, d1 |-> d1, d2 |-> d2, d3 |-> d3,
       d4 |-> d4]

\* position i starts 'nvidia-modeset: ERROR: GPU:<n>:'
HasPrefixAt(s, i) ==
  LET f == Fields(s, i)
  IN  At(s, i) = LitModeset /\ f.a > i + 1 /\ At(s, f.a) = ":"

\* position i starts a complete occurrence of the pattern
WellFormedAt(s, i) ==
  LET f == Fields(s, i)
  IN  /\ HasPrefixAt(s, i)
      /\ At(s, f.a + 1) = LitWaiting
      /\ At(s, f.a + 2) = "0" /\ At(s, f.a + 3) = "x"
      /\ f.b > f.a + 4
      /\ f.c > f.b
      /\ f.d1 > f.c /\ At(s, f.d1) = ":"
      /\ f.d2 > f.d1 + 1 /\ At(s, f.d2) = ":"
      /\ f.d3 > f.d2 + 1 /\ At(s, f.d3) = ":"
      /\ f.d4 > f.d3 + 1

WellFormedSomewhere(s) == \E i \in 1..Len(s) : WellFormedAt(s, i)

FirstWellFormed(s) ==
  CHOOSE i \in 1..Len(s) :
    WellFormedAt(s, i) /\ \A j \in 1..(i - 1) : ~WellFormedAt(s, j)

IdxAt(s, i) == Slice(s, i + 1, Fields(s, i).a)

CodeAt(s, i) == Slice(s, Fields(s, i).a + 2, Fields(s, i).b)

TupleAt(s, i) == Slice(s, Fields(s, i).c, Fields(s, i).d4)

\* a non-empty string of decimal digits
IsDecimal(s) == Len(s) > 0 /\ AllIn(s, Digit)

\* '0x', hexadecimal digits, optionally ':' and a decimal sub-index
IsHexCode(s) ==
  LET h == RunEnd(s, 3, HexDigit)
  IN  /\ At(s, 1) = "0" /\ At(s, 2) = "x"
      /\ h > 3
      /\ \/ h = Len(s) + 1
         \/ At(s, h) = ":" /\ IsDecimal(SubSeq(s, h + 1, Len(s)))

\* four decimal fields separated by colons
IsTuple4(s) ==
  LET d1 == RunEnd(s, 1, Digit)
      d2 == RunEnd(s, d1 + 1, Digit)
      d3 == RunEnd(s, d2 + 1, Digit)
      d4 == RunEnd(s, d3 + 1, Digit)
  IN  /\ d1 > 1 /\ At(s, d1) = ":"
      /\ d2 > d1 + 1 /\ At(s, d2) = ":"
      /\ d3 > d2 + 1 /\ At(s, d3) = ":"
      /\ d4 > d3 + 1 /\ d4 = Len(s) + 1

\* position i starts the full signature
\* 'nvidia-modeset: ERROR: GPU:<digits>: Error while waiting for GPU
\* progress: <hex>[:<digits>] <d>:<d>:<d>:<d>'
SignatureAt(s, i) == WellFormedAt(s, i) /\ IsHexCode(CodeAt(s, i))

ContainsSignature(s) == \E i \in 1..Len(s) : SignatureAt(s, i)

\* the calls that have returned
Returned == {t \in Threads : frame[t].pc = "returned"}

\* the single event of a returned container
TheEvent(events) == events[1].Events[1]

\* a container with every GeneratedTimestamp cleared
StripTs(events) ==
  IF events = << >> THEN << >>
  ELSE << [events[1] EXCEPT !.Events =
             [k \in 1..Len(@) |-> [@[k] EXCEPT !.GeneratedTimestamp = 0]]] >>

(***************************************************************************)
(* C1: for every line that contains the full signature, ProcessLine        *)
(* returns a non-nil container with exactly one event, whose single        *)
(* impacted entity has the captured GPU index as written in the line as    *)
(* its value and whose Message contains the captured error code and the    *)
(* captured tuple.                                                         *)
(***************************************************************************)
C1_SignatureYieldsEvent ==
  \A t \in Returned :
    LET m == frame[t].message IN
    ContainsSignature(m) =>
      /\ frame[t].events # << >>
      /\ Len(frame[t].events[1].Events) = 1
      /\ LET e == TheEvent(frame[t].events)
             i == FirstWellFormed(m)
         IN  /\ Len(e.EntitiesImpacted) = 1
             /\ e.EntitiesImpacted[1].EntityValue = IdxAt(m, i)
             /\ e.EntitiesImpacted[1].EntityValue = frame[t].event[1].gpuID
             /\ Contains(e.Message, CodeAt(m, i))
             /\ Contains(e.Message, frame[t].event[1].errorCode)
             /\ Contains(e.Message, TupleAt(m, i))
             /\ Contains(e.Message, frame[t].event[1].errorDetails)

\* a signature line with a GPU index written with a leading zero, text
\* before and after the signature, classified
C1_Witness ==
  \E t \in Returned :
    LET m == frame[t].message IN
    /\ ContainsSignature(m)
    /\ ~SignatureAt(m, 1)
    /\ frame[t].events # << >>
    /\ TheEvent(frame[t].events).EntitiesImpacted[1].EntityValue
         = << "0", "2" >>

(***************************************************************************)
(* C2, as stated: every line that has the prefix                           *)
(* 'nvidia-modeset: ERROR: GPU:<n>:' with a continuation that diverges     *)
(* from the pattern yields nil from parseGPUDriverError and no event,      *)
(* whatever text follows the diverging part.                               *)
(***************************************************************************)
DivergesAt(s, i) == HasPrefixAt(s, i) /\ ~WellFormedAt(s, i)

C2_AsStated ==
  \A t \in Returned :
    (\E i \in 1..Len(frame[t].message) : DivergesAt(frame[t].message, i))
      => frame[t].event = << >> /\ frame[t].events = << >>

(***************************************************************************)
(* C2, amended: every line in which the marker                             *)
(* 'nvidia-modeset: ERROR: GPU:' occurs once, in a prefix whose            *)
(* continuation diverges from the pattern, yields nil from                 *)
(* parseGPUDriverError and no event.                                       *)
(***************************************************************************)
C2_SinglePrefixDiverges ==
  \A t \in Returned :
    LET m == frame[t].message IN
    ( /\ Occurrences(m, LitModeset) = 1
      /\ \E i \in 1..Len(m) : DivergesAt(m, i) )
      => frame[t].event = << >> /\ frame[t].events = << >>

\* a line that goes as far as the error code and the tuple's first three
\* fields, with more text after it, classified as no event
C2_Witness ==
  \E t \in Returned :
    LET m == frame[t].message IN
    /\ Occurrences(m, LitModeset) = 1
    /\ \E i \in 1..Len(m) :
         /\ DivergesAt(m, i)
         /\ At(m, Fields(m, i).a + 1) = LitWaiting
         /\ Fields(m, i).d3 > Fields(m, i).d2 + 1
         /\ Fields(m, i).d3 <= Len(m)
    /\ frame[t].events = << >>

(***************************************************************************)
(* C5: whenever parseGPUDriverError reports a match, the GPU index is a    *)
(* non-empty string of decimal digits, the error code is '0x' followed by  *)
(* hexadecimal digits and optionally one colon-separated sub-index, and    *)
(* the details are exactly four decimal fields separated by colons.        *)
(***************************************************************************)
C5_CapturedShapes ==
  \A t \in Returned :
    frame[t].event # << >> =>
      /\ IsDecimal(frame[t].event[1].gpuID)
      /\ IsHexCode(frame[t].event[1].errorCode)
      /\ IsTuple4(frame[t].event[1].errorDetails)

(***************************************************************************)
(* C3: ProcessLine returns a nil error for every line, and a nil container *)
(* with it for every line the pattern does not match; an event is         *)
(* returned only if the match succeeded; NewGPUDriverErrorHandler returns  *)
(* a handler and a nil error for every combination of configuration       *)
(* strings.                                                                *)
(***************************************************************************)
C3_NoErrors ==
  /\ \A t \in Returned :
       /\ frame[t].err = "nil"
       /\ ~WellFormedSomewhere(frame[t].message) => frame[t].events = << >>
       /\ frame[t].events # << >> =>
            /\ frame[t].event # << >>
            /\ WellFormedSomewhere(frame[t].message)
  /\ \A id \in HandlerIds :
       newCall[id] # << >> =>
         newCall[id][1].err = "nil" /\ handlers[id] # << >>

\* a handler made from four empty strings that classified a line with no
\* occurrence of the pattern
C3_Witness ==
  \E t \in Returned :
    /\ newCall[frame[t].h] # << >>
    /\ newCall[frame[t].h][1].nodeName = ""
    /\ newCall[frame[t].h][1].defaultAgentName = ""
    /\ newCall[frame[t].h][1].defaultComponentClass = ""
    /\ newCall[frame[t].h][1].checkName = ""
    /\ frame[t].message # << >>
    /\ ~WellFormedSomewhere(frame[t].message)
    /\ frame[t].events = << >>
    /\ frame[t].err = "nil"

(***************************************************************************)
(* C4: every container ProcessLine returns holds exactly one event, and    *)
(* the event has exactly one impacted entity, of type "GPU", exactly one   *)
(* ErrorCode tag, "GPU_DRIVER_ERROR", IsFatal true, IsHealthy false and    *)
(* RecommendedAction RESTART_BM.                                           *)
(***************************************************************************)
WellShaped(events) ==
  /\ Len(events[1].Events) = 1
  /\ LET e == TheEvent(events)
     IN  /\ Len(e.EntitiesImpacted) = 1
         /\ e.EntitiesImpacted[1].EntityType = "GPU"
         /\ e.ErrorCode = << "GPU_DRIVER_ERROR" >>
         /\ e.IsFatal = TRUE
         /\ e.IsHealthy = FALSE
         /\ e.RecommendedAction = "RESTART_BM"

C4_EventShape ==
  /\ \A t \in Returned :
       frame[t].events # << >> => WellShaped(frame[t].events)
  /\ probe # << >> /\ probe[1].events # << >> => WellShaped(probe[1].events)

\* the third call in a row returned an event
C4_Witness ==
  \E t \in Returned :
    /\ calls = 3
    /\ frame[t].events # << >>
    /\ Value(gpuDriverErrorCounterMetric,
             << handlers[frame[t].h][1].nodeName >>) = 3

(***************************************************************************)
(* C6: the per-node counter equals the number of calls on handlers of the  *)
(* node that returned an event, and the per-node-per-GPU counter of        *)
(* (node, g) equals the number of returned events whose impacted entity    *)
(* value is g; a call on a line that does not match increments neither.    *)
(***************************************************************************)
RECURSIVE SumOver(_, _)
SumOver(f, keys) ==
  IF keys = {} THEN 0
  ELSE LET k == CHOOSE k \in keys : TRUE
       IN  f[k] + SumOver(f, keys \ {k})

\* the events returned by the handlers of a node
ReturnedOfNode(n) == SumOver(returned, {k \in DOMAIN returned : k[1] = n})

C6_CountersFireOnce ==
  /\ \A n \in NodeNames :
       Value(gpuDriverErrorCounterMetric, << n >>) = ReturnedOfNode(n)
  /\ \A k \in DOMAIN gpuDriverErrorCounterMetric : k[1] \in NodeNames
  /\ \A k \in DOMAIN gpuDriverErrorsReportedMetric \cup DOMAIN returned :
       Value(gpuDriverErrorsReportedMetric, k) = Value(returned, k)

\* three calls on two handlers of one node: an event for GPU 2, an event
\* for GPU 5 and a line that did not match
C6_Witness ==
  /\ calls = 3
  /\ Value(gpuDriverErrorCounterMetric, << "test-node" >>) = 2
  /\ Value(gpuDriverErrorsReportedMetric, << "test-node", << "2" >> >>) = 1
  /\ Value(gpuDriverErrorsReportedMetric, << "test-node", << "5" >> >>) = 1
  /\ probe # << >> /\ probe[1].events # << >>
  /\ \E t \in Returned :
       /\ frame[t].events = << >>
       /\ frame[t].h # probe[1].h
       /\ handlers[frame[t].h][1].nodeName = "test-node"

(***************************************************************************)
(* C7: two calls of ProcessLine on the same line with the same handler,    *)
(* whatever calls are made in between, have the same match or no-match     *)
(* outcome and return events equal in every field but GeneratedTimestamp.  *)
(***************************************************************************)
SameCall(t) ==
  /\ probe # << >>
  /\ probe[1].h = frame[t].h
  /\ probe[1].message = frame[t].message

C7_Deterministic ==
  \A t \in Returned :
    SameCall(t) =>
      /\ (probe[1].events = << >>) <=> (frame[t].events = << >>)
      /\ StripTs(probe[1].events) = StripTs(frame[t].events)

\* the first and the third call are the same call, made at different
\* times, and all three calls reported the same GPU of the node
C7_Witness ==
  \E t \in Returned :
    /\ SameCall(t)
    /\ calls = 3
    /\ frame[t].events # << >>
    /\ TheEvent(frame[t].events).GeneratedTimestamp
         # TheEvent(probe[1].events).GeneratedTimestamp
    /\ Value(gpuDriverErrorsReportedMetric,
             << handlers[frame[t].h][1].nodeName,
                frame[t].event[1].gpuID >>) = 3

C10_MessageComposition ==
  \A t \in Returned :
    frame[t].events # << >> =>
      LET m == frame[t].message
          i == FirstWellFormed(m)
      IN  TheEvent(frame[t].events).Message =
            << "GPU " >> \o IdxAt(m, i)
            \o << ": nvidia-modeset driver error detected. " >>
            \o << "Error code: " >> \o CodeAt(m, i)
            \o << ", Details: " >> \o TupleAt(m, i) \o << ". " >>
            \o << "This indicates the GPU driver is not coming up properly. ",
                  "nvidia-driver-daemonset and device-plugin daemonset may be crashing. " >>
            \o << "Original message: " >> \o m

\* an event for a line with text before and after the matched portion
C10_Witness ==
  \E t \in Returned :
    LET m == frame[t].message IN
    /\ frame[t].events # << >>
    /\ FirstWellFormed(m) > 1
    /\ Fields(m, FirstWellFormed(m)).d4 <= Len(m)
    /\ CodeAt(m, FirstWellFormed(m)) # TupleAt(m, FirstWellFormed(m))

(***************************************************************************)
(* C9: for every interleaving of ProcessLine calls by several threads on   *)
(* shared handlers, a handler's four fields stay what                      *)
(* NewGPUDriverErrorHandler was given, a call that overlapped others       *)
(* returns what the same call returns when it runs alone, every returned   *)
(* event carries the Agent, CheckName, ComponentClass and NodeName given   *)
(* at construction, and no counter increment is lost.                      *)
(***************************************************************************)
NodeOf(t) == handlers[frame[t].h][1].nodeName

\* calls past the increment of line 45 that have not returned
PastCounter(n) ==
  Cardinality({t \in Threads :
                 frame[t].pc \in {"log", "inc2", "build"} /\ NodeOf(t) = n})

\* calls past the increment of line 74 that have not returned
PastReported(k) ==
  Cardinality({t \in Threads :
                 /\ frame[t].pc = "build"
                 /\ << NodeOf(t), frame[t].event[1].gpuID >> = k})

CarriesConfiguration(id, events) ==
  LET e == TheEvent(events)
      c == newCall[id][1]
  IN  /\ e.Agent = c.defaultAgentName
      /\ e.CheckName = c.checkName
      /\ e.ComponentClass = c.defaultComponentClass
      /\ e.NodeName = c.nodeName

C9_ConcurrentSafe ==
  /\ \A id \in HandlerIds :
       handlers[id] # << >> =>
         /\ newCall[id] # << >>
         /\ handlers[id][1] =
              GPUDriverErrorHandler(newCall[id][1].nodeName,
                                    newCall[id][1].defaultAgentName,
                                    newCall[id][1].defaultComponentClass,
                                    newCall[id][1].checkName)
  /\ \A t \in Returned :
       /\ frame[t].events # << >> =>
            /\ Len(frame[t].events[1].Events) = 1
            /\ CarriesConfiguration(frame[t].h, frame[t].events)
       /\ SameCall(t) /\ ~probe[1].overlap =>
            StripTs(probe[1].events) = StripTs(frame[t].events)
  /\ \A n \in NodeNames :
       Value(gpuDriverErrorCounterMetric, << n >>)
         = ReturnedOfNode(n) + PastCounter(n)
  /\ \A k \in DOMAIN gpuDriverErrorsReportedMetric \cup DOMAIN returned :
       Value(gpuDriverErrorsReportedMetric, k)
         = Value(returned, k) + PastReported(k)

\* a call that ran alone, then the same call made by two threads at once,
\* both returned, all three counted
C9_Witness ==
  \E t \in Returned, u \in Returned :
    /\ t # u
    /\ SameCall(t) /\ SameCall(u)
    /\ ~probe[1].overlap
    /\ frame[t].overlap /\ frame[u].overlap
    /\ frame[t].events # << >>
    /\ Value(gpuDriverErrorsReportedMetric,
             << NodeOf(t), frame[t].event[1].gpuID >>) = 3

====
